---- MODULE Spec2Model ----
(***************************************************************************)
(* Model of simulate_3i_atlas.py: the hyperbolic Kepler solver solve_H and *)
(* the propagation part of main.                                           *)
(*                                                                         *)
(* Python floats are IEEE-754 binary64 values.  They are modelled exactly: *)
(* a finite double is (-1)^s * m * 2^x with m an integer below 2^53, kept  *)
(* as a little-endian sequence of 14-bit limbs because TLC integers are 32 *)
(* bits wide.  +, -, *, /, sqrt and ** round to nearest, ties to even, as  *)
(* the hardware does; sinh, cosh and asinh are evaluated in 98-bit fixed   *)
(* point and rounded once.                                                 *)
(*                                                                         *)
(* TLC counts the evaluations of every expression once for each place it  *)
(* is used from, so a value that is needed more than once is passed on as  *)
(* the argument of an operator, which is evaluated once.  TLC evaluates    *)
(* such an argument where it is first used: the operators below use theirs *)
(* at once, in a test or as <<a, v>>[2], which is v with a evaluated       *)
(* first, so that evaluations follow one another and are not nested.  A    *)
(* loop is run by an operator that takes up to 4^k steps and stops when    *)
(* the loop has ended: the nesting grows with k, not with the number of    *)
(* passes.                                                                 *)
(***************************************************************************)
EXTENDS Integers, Sequences, FiniteSets, TLC

(***************************************************************************)
(* Natural numbers of arbitrary size: little-endian limbs, no high zeros.  *)
(* This is the integer arithmetic under the float operations below; the    *)
(* program has no line of its own for it.                                  *)
(***************************************************************************)
LimbBits == 14
Base == 2 ^ LimbBits

Max2(a, b) == IF a >= b THEN a ELSE b
Min2(a, b) == IF a <= b THEN a ELSE b

\* a sequence built by a function constructor, as an explicit tuple
Tup(f) == f \o <<>>

BLimb(a, i) == IF i >= 1 /\ i <= Len(a) THEN a[i] ELSE 0

\* index of the highest nonzero limb, 0 if there is none
TopIdx(t) ==
  CHOOSE i \in 0..Len(t) :
    (i = 0 \/ t[i] # 0) /\ \A j \in (i + 1)..Len(t) : t[j] = 0

\* drop the high zero limbs
TrimTup(t) == SubSeq(t, 1, TopIdx(t))
BTrim(a) == TrimTup(Tup(a))

\* Carry propagation over column sums 0 <= cols[i] < 2^31.  Three passes
\* bring every column to 0..Base; the remaining carries ripple only through
\* limbs equal to Base - 1 and are resolved by a look-ahead.
CarryPass(c) ==
  IF c = <<>> THEN <<>> ELSE
  Tup([i \in 1..(Len(c) + 1) |-> (BLimb(c, i) % Base) + (BLimb(c, i - 1) \div Base)])

CarryIn(c, i) ==
  \E j \in 1..(i - 1) : c[j] = Base /\ \A k \in (j + 1)..(i - 1) : c[k] = Base - 1

Ripple(c) ==
  IF c = <<>> THEN <<>>
  ELSE BTrim([i \in 1..Len(c) |-> (c[i] + (IF CarryIn(c, i) THEN 1 ELSE 0)) % Base])

BNorm(cols) ==
  IF cols = <<>> THEN <<>> ELSE Ripple(CarryPass(CarryPass(CarryPass(cols))))

BAdd(a, b) ==
  IF a = <<>> THEN b
  ELSE IF b = <<>> THEN a
  ELSE BNorm(Tup([i \in 1..Max2(Len(a), Len(b)) |-> BLimb(a, i) + BLimb(b, i)]))

BorrowIn(d, i) ==
  \E j \in 1..(i - 1) : d[j] < 0 /\ \A k \in (j + 1)..(i - 1) : d[k] = 0

Borrow(d) ==
  BTrim([i \in 1..Len(d) |->
          (d[i] + Base - (IF BorrowIn(d, i) THEN 1 ELSE 0)) % Base])

\* a - b for a >= b: the borrows ripple through equal limbs
BSub(a, b) ==
  IF a = <<>> \/ b = <<>> THEN a
  ELSE Borrow(Tup([i \in 1..Len(a) |-> a[i] - BLimb(b, i)]))

\* the highest limb in which a and b differ, 0 if there is none
TopDiff(a, b) ==
  CHOOSE i \in 0..Len(a) :
    (i = 0 \/ a[i] # BLimb(b, i)) /\ \A j \in (i + 1)..Len(a) : a[j] = BLimb(b, j)

CmpAt(a, b, t) == IF t = 0 THEN 0 ELSE IF a[t] > b[t] THEN 1 ELSE -1

\* -1, 0, 1 as a < b, a = b, a > b
BCmp(a, b) ==
  CASE Len(a) > Len(b) -> 1
    [] Len(a) < Len(b) -> -1
    [] Len(a) = Len(b) -> CmpAt(a, b, TopDiff(a, b))

\* a * b, b of at most 8 limbs (8 limb products fit a 32-bit column)
BMul(a, b) ==
  IF a = <<>> \/ b = <<>> THEN <<>> ELSE
  BNorm(Tup([k \in 1..Max2(Len(a) + Len(b) - 1, 0) |->
                 BLimb(b, 1) * BLimb(a, k) + BLimb(b, 2) * BLimb(a, k - 1)
               + BLimb(b, 3) * BLimb(a, k - 2) + BLimb(b, 4) * BLimb(a, k - 3)
               + BLimb(b, 5) * BLimb(a, k - 4) + BLimb(b, 6) * BLimb(a, k - 5)
               + BLimb(b, 7) * BLimb(a, k - 6) + BLimb(b, 8) * BLimb(a, k - 7)]))

\* a * n for a small natural n (n < 2^16)
BMulS(a, n) ==
  IF a = <<>> \/ n = 0 THEN <<>> ELSE BNorm(Tup([i \in 1..Len(a) |-> a[i] * n]))

BFromInt(n) == BNorm(<<n>>)

\* the value of a, for a < 2^28
BToInt(a) == BLimb(a, 1) + Base * BLimb(a, 2)

Zeros(n) == Tup([i \in 1..n |-> 0])

BShl(a, n) ==
  IF a = <<>> THEN <<>>
  ELSE Zeros(n \div LimbBits) \o BMulS(a, 2 ^ (n % LimbBits))

\* the limbs from q + 1 on, moved down by the bits that lo = 2^r counts
ShrLimbs(a, q, lo, hi) ==
  BTrim([i \in 1..Max2(Len(a) - q, 0) |->
          (a[i + q] \div lo) + (BLimb(a, i + q + 1) % lo) * hi])

BShr(a, n) ==
  IF a = <<>> THEN <<>> ELSE
  ShrLimbs(a, n \div LimbBits, 2 ^ (n % LimbBits), 2 ^ (LimbBits - (n % LimbBits)))

\* number of bits of a limb
IntBitLen(n) ==
  CHOOSE k \in 0..LimbBits : n < 2 ^ k /\ (k = 0 \/ n >= 2 ^ (k - 1))

BBitLen(a) ==
  IF a = <<>> THEN 0 ELSE (Len(a) - 1) * LimbBits + IntBitLen(a[Len(a)])

\* bit i (bit 0 is the least significant)
BBit(a, i) == (BLimb(a, (i \div LimbBits) + 1) \div (2 ^ (i % LimbBits))) % 2

\* some of the low n bits of a is set
BLowSet(a, n) ==
  \E i \in 1..Len(a) :
     \/ i <= n \div LimbBits /\ a[i] # 0
     \/ i = (n \div LimbBits) + 1 /\ a[i] % (2 ^ (n % LimbBits)) # 0

BPow2(n) == Zeros(n \div LimbBits) \o <<2 ^ (n % LimbBits)>>

\* Schoolbook long division, one quotient limb at a time (Knuth's D), of a
\* by b with the top bit of its top limb set; st.r is the running
\* remainder and st.i the next limb of a to bring down.  The trial limb is
\* at most 2 too large.
TrialLimb(b, r) ==
  Min2(Base - 1, (BLimb(r, Len(b) + 1) * Base + BLimb(r, Len(b))) \div b[Len(b)])

QFix(b, r, q) ==
  CASE BCmp(BMulS(b, q), r) <= 0 -> q
    [] OTHER -> IF BCmp(BMulS(b, q - 1), r) <= 0 THEN q - 1 ELSE q - 2

DivLimb(st, r, q) ==
  [q |-> <<q>> \o st.q, a |-> st.a, b |-> st.b, i |-> st.i - 1,
   r |-> BSub(r, BMulS(st.b, q))]

DivBring(st, r) ==
  <<r, DivLimb(st, r, QFix(st.b, r, TrialLimb(st.b, r)))>>[2]

DivStep(st) ==
  IF st.i = 0 THEN st ELSE DivBring(st, BTrim(<<st.a[st.i]>> \o st.r))

\* up to 4^k steps, as many as the loop takes
RECURSIVE DivRun(_, _)
DivRun(st, k) ==
  LET a == DivRun(st, k - 1)
      b == DivRun(a, k - 1)
      c == DivRun(b, k - 1)
  IN CASE k = 0 -> DivStep(st)
       [] k > 0 /\ a.i = 0 -> a
       [] k > 0 /\ a.i # 0 /\ b.i = 0 -> b
       [] k > 0 /\ b.i # 0 /\ c.i = 0 -> c
       [] k > 0 /\ c.i # 0 -> DivRun(c, k - 1)

\* the top skip limbs of a are below b: they start the remainder; the
\* quotient has at most 16 limbs
DivFrom(a, b, skip) ==
  DivRun([a |-> a, b |-> b, i |-> Len(a) - skip,
          r |-> BTrim(SubSeq(a, Len(a) - skip + 1, Len(a))), q |-> <<>>], 2)

DivResult(st, s) == <<st, <<BTrim(st.q), BShr(st.r, s)>> >>[2]

\* the division of a by b, both shifted left by s bits
DivNormal(a, b, s) ==
  <<a, b, DivResult(DivFrom(a, b, Min2(Len(a), Len(b) - 1)), s)>>[3]

\* <<quotient, remainder>> of a by b # 0
BDivMod(a, b) ==
  DivNormal(BShl(a, LimbBits - IntBitLen(b[Len(b)])),
            BShl(b, LimbBits - IntBitLen(b[Len(b)])),
            LimbBits - IntBitLen(b[Len(b)]))

BDiv(a, b) == BDivMod(a, b)[1]

\* a \div n for a small positive n (n < 2^16) and a of at most 16 limbs,
\* limb by limb from the top: r is the running remainder and q the limbs
\* of the quotient found so far
DivSStep(st) ==
  IF st.i = 0 THEN st
  ELSE [a |-> st.a, n |-> st.n, i |-> st.i - 1,
        r |-> (st.r * Base + st.a[st.i]) % st.n,
        q |-> <<(st.r * Base + st.a[st.i]) \div st.n>> \o st.q]

\* up to 4^k steps, as many as the loop takes
RECURSIVE DivSRun(_, _)
DivSRun(st, k) ==
  LET a == DivSRun(st, k - 1)
      b == DivSRun(a, k - 1)
      c == DivSRun(b, k - 1)
  IN CASE k = 0 -> DivSStep(st)
       [] k > 0 /\ a.i = 0 -> a
       [] k > 0 /\ a.i # 0 /\ b.i = 0 -> b
       [] k > 0 /\ b.i # 0 /\ c.i = 0 -> c
       [] k > 0 /\ c.i # 0 -> DivSRun(c, k - 1)

BDivS(a, n) ==
  IF a = <<>> THEN <<>>
  ELSE BTrim(DivSRun([a |-> a, n |-> n, i |-> Len(a), r |-> 0, q |-> <<>>], 2).q)
(***************************************************************************)
(* IEEE-754 binary64.  A float is a record: k is "fin", "inf" or "nan";    *)
(* a finite value is (-1)^s * m * 2^x with either 2^52 <= m < 2^53 and     *)
(* -1074 <= x <= 971 (normal), or m < 2^52 and x = -1074 (subnormal), or   *)
(* m = 0, x = 0, s = 0 (zero; Python's == does not tell -0.0 from 0.0 and  *)
(* nothing here depends on the sign of a zero).                            *)
(***************************************************************************)
MantBits == 53
MinExp == -1074
MaxExp == 971

FZero == [k |-> "fin", s |-> 0, m |-> <<>>, x |-> 0]
FInf(s) == [k |-> "inf", s |-> s, m |-> <<>>, x |-> 0]
FNaN == [k |-> "nan", s |-> 0, m |-> <<>>, x |-> 0]

FIsNaN(a) == a.k = "nan"
FIsInf(a) == a.k = "inf"
FIsFin(a) == a.k = "fin"
FIsZero(a) == a.k = "fin" /\ a.m = <<>>

\* a finite value, an infinity when the exponent is out of range
Finite(s, m, x) ==
  CASE m = <<>> -> FZero
    [] m # <<>> /\ x > MaxExp -> FInf(s)
    [] m # <<>> /\ x <= MaxExp -> [k |-> "fin", s |-> s, m |-> m, x |-> x]

\* a rounded mantissa of MantBits + 1 bits is halved
Carry(s, m, x) ==
  IF BBitLen(m) > MantBits THEN Finite(s, BShr(m, 1), x + 1) ELSE Finite(s, m, x)

\* the sh bits dropped from M are above a half, or a half with bit sh odd
HalfUp(M, sh, sticky) ==
  /\ BBit(M, sh - 1) = 1
  /\ (sticky \/ BLowSet(M, sh - 1) \/ BBit(M, sh) = 1)

\* M / 2^sh to the nearest integer, ties to even
Rounded(M, sh, sticky) ==
  CASE sh <= 0 -> BShl(M, 0 - sh)
    [] sh > 0 /\ HalfUp(M, sh, sticky) -> BAdd(BShr(M, sh), <<1>>)
    [] sh > 0 /\ ~HalfUp(M, sh, sticky) -> BShr(M, sh)

\* round (-1)^s * M * 2^X to nearest, ties to even; sticky tells that the
\* exact value lies strictly above M * 2^X (and below (M + 1) * 2^X)
RoundPack(s, M, X, sticky) ==
  IF M = <<>> THEN FZero
  ELSE LET xe == Max2(X + BBitLen(M) - MantBits, MinExp)
       IN Carry(s, Rounded(M, xe - X, sticky), xe)

FNeg(a) == IF a.k = "nan" \/ FIsZero(a) THEN a ELSE [a EXCEPT !.s = 1 - a.s]
FAbs(a) == [a EXCEPT !.s = 0]

\* the sum of two finite nonzero floats, a.x >= b.x: A is the mantissa of
\* a at the exponent of b and c orders A and the mantissa of b
AddAligned(a, A, b, c) ==
  RoundPack(IF a.s = b.s \/ c >= 0 THEN a.s ELSE b.s,
            CASE a.s = b.s -> BAdd(A, b.m)
              [] a.s # b.s /\ c >= 0 -> BSub(A, b.m)
              [] a.s # b.s /\ c < 0 -> BSub(b.m, A),
            b.x, FALSE)

AddShifted(a, A, b) == <<A, AddAligned(a, A, b, BCmp(A, b.m))>>[2]

AddOrdered(a, b) ==
  IF a.x - b.x > 64 THEN a ELSE AddShifted(a, BShl(a.m, a.x - b.x), b)

FAdd(a, b) ==
  CASE a.k = "nan" \/ b.k = "nan" -> FNaN
    [] a.k = "inf" /\ b.k = "inf" -> IF b.s # a.s THEN FNaN ELSE a
    [] a.k = "inf" /\ b.k = "fin" -> a
    [] a.k = "fin" /\ b.k = "inf" -> b
    [] a.k = "fin" /\ b.k = "fin" ->
         CASE a.m = <<>> -> b
           [] a.m # <<>> /\ b.m = <<>> -> a
           [] a.m # <<>> /\ b.m # <<>> /\ a.x >= b.x -> AddOrdered(a, b)
           [] a.m # <<>> /\ b.m # <<>> /\ a.x < b.x -> AddOrdered(b, a)

FSub(a, b) == FAdd(a, FNeg(b))

FMul(a, b) ==
  CASE a.k = "nan" \/ b.k = "nan" -> FNaN
    [] a.k # "nan" /\ b.k # "nan" /\ (a.k = "inf" \/ b.k = "inf") ->
         IF FIsZero(a) \/ FIsZero(b) THEN FNaN ELSE FInf((a.s + b.s) % 2)
    [] a.k = "fin" /\ b.k = "fin" ->
         RoundPack((a.s + b.s) % 2, BMul(a.m, b.m), a.x + b.x, FALSE)

\* a quotient and its remainder, rounded
DivRound(s, qr, x) == <<qr, RoundPack(s, qr[1], x, qr[2] # <<>>)>>[2]

\* a / b for b # 0 (Python raises ZeroDivisionError before dividing by 0)
FDivFin(a, b) ==
  LET n == 56 + BBitLen(b.m) - BBitLen(a.m)
  IN DivRound((a.s + b.s) % 2, BDivMod(BShl(a.m, n), b.m), a.x - b.x - n)

FDiv(a, b) ==
  CASE a.k = "nan" \/ b.k = "nan" -> FNaN
    [] a.k = "inf" /\ b.k = "inf" -> FNaN
    [] a.k = "inf" /\ b.k = "fin" -> FInf((a.s + b.s) % 2)
    [] a.k = "fin" /\ b.k = "inf" -> FZero
    [] a.k = "fin" /\ b.k = "fin" ->
         IF a.m = <<>> THEN FZero ELSE FDivFin(a, b)

\* exponent of the leading bit of a finite nonzero float: 2^e <= |a| < 2^(e+1)
TopExp(a) == a.x + BBitLen(a.m) - 1

\* order of the magnitudes of two finite nonzero floats
MagCmp(a, b) ==
  CASE TopExp(a) > TopExp(b) -> 1
    [] TopExp(a) < TopExp(b) -> -1
    [] TopExp(a) = TopExp(b) /\ a.x >= b.x -> BCmp(BShl(a.m, a.x - b.x), b.m)
    [] TopExp(a) = TopExp(b) /\ a.x < b.x -> BCmp(a.m, BShl(b.m, b.x - a.x))

\* -1, 0, 1 for a, b that are not NaN
FSign(a) == IF FIsZero(a) THEN 0 ELSE IF a.s = 1 THEN -1 ELSE 1
FCmp(a, b) ==
  CASE FSign(a) > FSign(b) -> 1
    [] FSign(a) < FSign(b) -> -1
    [] FSign(a) = FSign(b) /\ FSign(a) = 0 -> 0
    [] FSign(a) = FSign(b) /\ FSign(a) # 0 ->
         FSign(a) * (CASE a.k = "inf" /\ b.k = "inf" -> 0
                       [] a.k = "inf" /\ b.k = "fin" -> 1
                       [] a.k = "fin" /\ b.k = "inf" -> -1
                       [] a.k = "fin" /\ b.k = "fin" -> MagCmp(a, b))

\* Python's comparisons: every comparison with a NaN is False
FLt(a, b) == a.k # "nan" /\ b.k # "nan" /\ FCmp(a, b) < 0
FGt(a, b) == FLt(b, a)
FEq(a, b) == a.k # "nan" /\ b.k # "nan" /\ FCmp(a, b) = 0
FLe(a, b) == a.k # "nan" /\ b.k # "nan" /\ FCmp(a, b) <= 0

\* the float of a natural number below 2^28
FInt(n) == RoundPack(0, BFromInt(n), 0, FALSE)
FOne == [k |-> "fin", s |-> 0, m |-> <<0, 0, 0, 1024>>, x |-> -52]

\* floor of the square root, by Newton's iteration from above: y1 is the
\* iterate after st.y, and the iteration has ended when it is not below
SqrtNext(st, y1) ==
  IF BCmp(y1, st.y) >= 0 THEN [st EXCEPT !.end = TRUE]
  ELSE [N |-> st.N, y |-> y1, end |-> FALSE]
SqrtStep(st) ==
  IF st.end THEN st ELSE SqrtNext(st, BShr(BAdd(st.y, BDiv(st.N, st.y)), 1))

\* up to 4^k steps, as many as the loop takes
RECURSIVE SqrtRun(_, _)
SqrtRun(st, k) ==
  LET a == SqrtRun(st, k - 1)
      b == SqrtRun(a, k - 1)
      c == SqrtRun(b, k - 1)
  IN CASE k = 0 -> SqrtStep(st)
       [] k > 0 /\ a.end -> a
       [] k > 0 /\ ~a.end /\ b.end -> b
       [] k > 0 /\ ~b.end /\ c.end -> c
       [] k > 0 /\ ~c.end -> SqrtRun(c, k - 1)

\* at most 16 iterates for N below 2^128
BSqrt(N) ==
  IF N = <<>> THEN <<>>
  ELSE SqrtRun([N |-> N, y |-> BPow2((BBitLen(N) + 1) \div 2), end |-> FALSE], 2).y

\* the root r of M, inexact when r * r # M
SqrtPack(M, r, x) == RoundPack(0, r, x, BMul(r, r) # M)
SqrtRound(M, x) == <<M, SqrtPack(M, BSqrt(M), x)>>[2]

\* math.sqrt for a >= 0, correctly rounded
FSqrt(a) ==
  IF a.k # "fin" \/ FIsZero(a) THEN a
  ELSE LET n0 == 58 + MantBits - BBitLen(a.m)
           n == IF (a.x - n0) % 2 = 0 THEN n0 ELSE n0 + 1
       IN SqrtRound(BShl(a.m, n), (a.x - n) \div 2)

\* a ** 2 and a ** 3 for finite a (C pow: the exact power, rounded once)
FSquare(a) == RoundPack(0, BMul(a.m, a.m), 2 * a.x, FALSE)
FCube(a) == RoundPack(a.s, BMul(BMul(a.m, a.m), a.m), 3 * a.x, FALSE)
(***************************************************************************)
(* math.sinh, math.cosh, np.sinh, np.cosh, np.arcsinh: the C library's     *)
(* functions.  They are evaluated here in fixed point with FracBits        *)
(* fractional bits (a natural number v stands for v / 2^FracBits) and      *)
(* rounded once to a double: the value is the correctly rounded one.  The  *)
(* C library's value can differ from it in the last place.                 *)
(***************************************************************************)
FracBits == 98
FixOne == BPow2(FracBits)
\* floor(ln(2) * 2^FracBits)
Ln2Fix == <<3680, 7739, 10994, 3961, 8007, 8575, 11356>>
ExpTerms == 28

FixMul(a, b) == BShr(BMul(a, b), FracBits)

\* |a| in fixed point (truncated), for finite a
ToFix(a) ==
  IF a.x + FracBits >= 0 THEN BShl(a.m, a.x + FracBits)
  ELSE BShr(a.m, 0 - (a.x + FracBits))

\* exp(r) for 0 <= r < ln 2 by Horner's rule on the Taylor series:
\* p := 1 + (r / n) * p for n = ExpTerms down to 1
ExpStep(st) ==
  IF st.n = 0 THEN st
  ELSE [n |-> st.n - 1, r |-> st.r,
        p |-> BAdd(FixOne, BDivS(FixMul(st.p, st.r), st.n))]

\* up to 4^k steps, as many as the loop takes
RECURSIVE ExpRun(_, _)
ExpRun(st, k) ==
  LET a == ExpRun(st, k - 1)
      b == ExpRun(a, k - 1)
      c == ExpRun(b, k - 1)
  IN CASE k = 0 -> ExpStep(st)
       [] k > 0 /\ a.n = 0 -> a
       [] k > 0 /\ a.n # 0 /\ b.n = 0 -> b
       [] k > 0 /\ b.n # 0 /\ c.n = 0 -> c
       [] k > 0 /\ c.n # 0 -> ExpRun(c, k - 1)

\* ExpTerms <= 64 steps
ExpFix(r) == <<r, ExpRun([n |-> ExpTerms, r |-> r, p |-> FixOne], 3).p>>[2]

\* |a| = n * ln 2 + r: n, exp(r) and exp(-r) in fixed point, for |a| < 1024
ExpInv(n, E) == [E |-> E, n |-> n, em |-> BDiv(BPow2(2 * FracBits), E)]
ExpOf(qr) == <<qr, ExpInv(BToInt(qr[1]), ExpFix(qr[2]))>>[2]
ExpParts(a) == ExpOf(BDivMod(ToFix(a), Ln2Fix))

\* a * (1 + a^2/6 + a^4/120) for |a| < 2^-20; z is a^2
SinhSeries(a, z) ==
  <<z, RoundPack(a.s,
                 BMul(BAdd(FixOne, BAdd(BDivS(z, 6), BDivS(FixMul(z, z), 120))), a.m),
                 a.x - FracBits, TRUE)>>[2]
SinhSmall(a) == SinhSeries(a, FixMul(ToFix(a), ToFix(a)))

\* (e^|a| - e^-|a|) / 2 from the parts of |a|
SinhOf(a, p) ==
  IF p.n > 64
  THEN RoundPack(a.s, BSub(BShl(p.E, 2), <<1>>), p.n - FracBits - 3, TRUE)
  ELSE RoundPack(a.s, BSub(BShl(p.E, 2 * p.n), p.em), 0 - FracBits - p.n - 1, TRUE)

CoshOf(p) ==
  IF p.n > 64
  THEN RoundPack(0, p.E, p.n - FracBits - 1, TRUE)
  ELSE RoundPack(0, BAdd(BShl(p.E, 2 * p.n), p.em), 0 - FracBits - p.n - 1, TRUE)

\* sinh and cosh; an infinite result for a finite argument is the C
\* library's range error
FSinh(a) ==
  CASE a.k # "fin" \/ FIsZero(a) -> a
    [] a.k = "fin" /\ a.m # <<>> /\ TopExp(a) >= 10 -> FInf(a.s)
    [] a.k = "fin" /\ a.m # <<>> /\ TopExp(a) < -20 -> SinhSmall(a)
    [] a.k = "fin" /\ a.m # <<>> /\ TopExp(a) \in -20..9 -> SinhOf(a, ExpParts(a))

FCosh(a) ==
  CASE a.k = "nan" -> a
    [] a.k = "inf" -> FInf(0)
    [] a.k = "fin" /\ a.m = <<>> -> FOne
    [] a.k = "fin" /\ a.m # <<>> /\ TopExp(a) >= 10 -> FInf(0)
    [] a.k = "fin" /\ a.m # <<>> /\ TopExp(a) < 10 -> CoshOf(ExpParts(a))

\* ln in fixed point of W * 2^X >= 1, as j * ln 2 + 2 * atanh(u) with
\* W * 2^X = t * 2^j, 1 <= t < 2, u = (t - 1) / (t + 1), and
\* atanh(u) = u * (1 + u^2/3 + u^4/5 + ...)
LnTerms == 31

AtanhStep(st) ==
  IF st.n < 0 THEN st
  ELSE [n |-> st.n - 1, z |-> st.z,
        s |-> BAdd(BDivS(FixOne, 2 * st.n + 1), FixMul(st.s, st.z))]

\* up to 4^k steps, as many as the loop takes
RECURSIVE AtanhRun(_, _)
AtanhRun(st, k) ==
  LET a == AtanhRun(st, k - 1)
      b == AtanhRun(a, k - 1)
      c == AtanhRun(b, k - 1)
  IN CASE k = 0 -> AtanhStep(st)
       [] k > 0 /\ a.n < 0 -> a
       [] k > 0 /\ a.n >= 0 /\ b.n < 0 -> b
       [] k > 0 /\ b.n >= 0 /\ c.n < 0 -> c
       [] k > 0 /\ c.n >= 0 -> AtanhRun(c, k - 1)

\* LnTerms + 1 <= 64 steps; z is u^2
AtanhSum(u, z) ==
  <<z, FixMul(AtanhRun([n |-> LnTerms, z |-> z, s |-> <<>>], 3).s, u)>>[2]

AtanhFix(u) == <<u, AtanhSum(u, FixMul(u, u))>>[2]

LnRatio(t) == <<t, BDiv(BShl(BSub(t, FixOne), FracBits), BAdd(t, FixOne))>>[2]

\* j * ln 2 + 2 * at
LnSum(j, at) == <<at, BAdd(BMulS(Ln2Fix, j), BShl(at, 1))>>[2]

LnFix(W, X) ==
  IF W = <<>> THEN <<>>
  ELSE LnSum(BBitLen(W) - 1 + X,
             AtanhFix(LnRatio(IF BBitLen(W) - 1 >= FracBits
                              THEN BShr(W, BBitLen(W) - 1 - FracBits)
                              ELSE BShl(W, FracBits - (BBitLen(W) - 1)))))

\* a * (1 - a^2/6 + 3 a^4/40) for |a| < 2^-20; z is a^2
AsinhSeries(a, z) ==
  <<z, RoundPack(a.s,
                 BMul(BAdd(BSub(FixOne, BDivS(z, 6)),
                           BDivS(BMulS(FixMul(z, z), 3), 40)), a.m),
                 a.x - FracBits, TRUE)>>[2]
AsinhSmall(a) == AsinhSeries(a, FixMul(ToFix(a), ToFix(a)))

\* ln(|a| + sqrt(a^2 + 1)) for 2^-20 <= |a| < 2^13; h is |a|
AsinhArg(h) == <<h, BAdd(h, BSqrt(BAdd(BMul(h, h), BPow2(2 * FracBits))))>>[2]
AsinhMid(a) ==
  RoundPack(a.s, LnFix(AsinhArg(ToFix(a)), 0 - FracBits), 0 - FracBits, TRUE)

\* ln(|a| * (1 + sqrt(1 + y))) with y = 1/a^2 and
\* 1 + sqrt(1 + y) = 2 + y/2 - y^2/8 + y^3/16 - ..., for |a| >= 2^13
LargeSeries(y, y2) ==
  <<y2, BSub(BAdd(BAdd(BPow2(FracBits + 1), BShr(y, 1)), BShr(FixMul(y2, y), 4)),
             BShr(y2, 3))>>[2]
LargeArg(m, y) == <<y, BMul(LargeSeries(y, FixMul(y, y)), m)>>[2]
AsinhLarge(a) ==
  RoundPack(a.s,
            LnFix(LargeArg(a.m, IF a.x > 48 THEN <<>>
                                ELSE BDiv(BPow2(FracBits - 2 * a.x), BMul(a.m, a.m))),
                  a.x - FracBits),
            0 - FracBits, TRUE)

FAsinh(a) ==
  CASE a.k # "fin" \/ FIsZero(a) -> a
    [] a.k = "fin" /\ a.m # <<>> /\ TopExp(a) < -20 -> AsinhSmall(a)
    [] a.k = "fin" /\ a.m # <<>> /\ TopExp(a) \in -20..12 -> AsinhMid(a)
    [] a.k = "fin" /\ a.m # <<>> /\ TopExp(a) >= 13 -> AsinhLarge(a)

(***************************************************************************)
(* solve_H(Mh, e, tol = 1e-12, maxit = 100)                                *)
(***************************************************************************)
Dbl(s, m, x) == [k |-> "fin", s |-> s, m |-> m, x |-> x]

\* the default arguments of solve_H
DefaultTol == Dbl(0, <<10769, 1207, 14744, 1125>>, -92)      \* 1e-12
DefaultMaxit == 100

\* abs(Mh) >= 1.0: the boundary sent to the asinh seed
UseAsinhInclusive(Mh) == FLe(FOne, FAbs(Mh))
\* abs(Mh) > 1.0
UseAsinh(Mh) == FGt(FAbs(Mh), FOne)

\* H = np.arcsinh(Mh / e); e > 1, so the division is by a nonzero value
SeedAsinh(Mh, e) ==
  FAsinh(FDiv(Mh, e))

\* x / d for Python floats: a zero divisor raises
PyDiv(x, d) ==
  IF FIsZero(d) THEN [raise |-> "ZeroDivisionError", v |-> FNaN]
  ELSE [raise |-> "none", v |-> FDiv(x, d)]

\* H = Mh / (e - 1.0)
SeedLinear(Mh, e) == PyDiv(Mh, FSub(e, FOne))

\* the math module turns an overflowing result v of a finite argument H
\* into OverflowError("math range error")
RangeChecked(H, v) ==
  [raise |-> IF FIsFin(H) /\ FIsInf(v) THEN "OverflowError" ELSE "none", v |-> v]

\* cosh taken for sinh
MathSinhAsCosh(H) == RangeChecked(H, FCosh(H))
\* math.sinh(H), math.cosh(H)
MathSinh(H) == RangeChecked(H, FSinh(H))
MathCosh(H) == RangeChecked(H, FCosh(H))

\* f = e * s - H - Mh
Residual(e, s, H, Mh) ==
  FSub(FSub(FMul(e, s), H), Mh)

\* fp = e * c - 1.0
Fp(e, c) ==
  FSub(FMul(e, c), FOne)

\* dH = -f / fp.  On the linear branch f is a Python float and a zero fp
\* raises ZeroDivisionError; on the asinh branch H, and with it f, is a
\* numpy float64, whose division by zero gives an infinity or a NaN.
NewtonStep(f, fp, seed) ==
  CASE seed = "linear" \/ ~FIsZero(fp) -> PyDiv(FNeg(f), fp)
    [] seed = "asinh" /\ FIsZero(fp) ->
         [raise |-> "none",
          v |-> IF FIsNaN(f) \/ FIsZero(f) THEN FNaN ELSE FInf(1 - f.s)]

\* abs(dH) < tol
Converged(dH, tol) == FLt(FAbs(dH), tol)

(***************************************************************************)
(* One call of solve_H.  pc is "seed" before line 31, "loop" at the head   *)
(* of the for statement, "done" once the call has returned H and "raised"  *)
(* once an exception has left it; it counts the updates applied to H.      *)
(***************************************************************************)
Enter(Mh, e, tol, maxit) ==
  [Mh |-> Mh, e |-> e, tol |-> tol, maxit |-> maxit, pc |-> "seed",
   seed |-> "none", H |-> FZero, Hprev |-> FZero, H0 |-> FZero,
   f |-> FZero, fp |-> FZero, dH |-> FZero, it |-> 0, exc |-> "none"]

Raise(fr, exc) == [fr EXCEPT !.pc = "raised", !.exc = exc]

\* lines 31-34
Seeded(fr, kind, h) == [fr EXCEPT !.pc = "loop", !.seed = kind, !.H = h, !.H0 = h]

SeededLinear(fr, h) ==
  IF h.raise # "none" THEN Raise(fr, h.raise) ELSE Seeded(fr, "linear", h.v)

SeedStep(fr) ==
  IF UseAsinh(fr.Mh) THEN Seeded(fr, "asinh", SeedAsinh(fr.Mh, fr.e))
  ELSE SeededLinear(fr, SeedLinear(fr.Mh, fr.e))

\* lines 40-43, once f, fp and the outcome d of the division are known
Applied(fr, f, fp, d) ==
  IF d.raise # "none"
  THEN Raise([fr EXCEPT !.f = f, !.fp = fp], d.raise)
  ELSE [fr EXCEPT !.f = f, !.fp = fp, !.dH = d.v, !.Hprev = fr.H,
                  !.H = FAdd(fr.H, d.v), !.it = fr.it + 1,
                  !.pc = IF Converged(d.v, fr.tol) THEN "done" ELSE "loop"]

Divided(fr, f, fp) == <<f, fp, Applied(fr, f, fp, NewtonStep(f, fp, fr.seed))>>[3]

\* lines 38-43, once s and c are known
UpdateStep(fr, s, c) == Divided(fr, Residual(fr.e, s, fr.H, fr.Mh), Fp(fr.e, c))

\* lines 36-43: one pass through the body of the loop
WithCosh(fr, s, c) ==
  IF c.raise # "none" THEN Raise(fr, c.raise) ELSE UpdateStep(fr, s, c.v)

WithSinh(fr, s) ==
  IF s.raise # "none" THEN Raise(fr, s.raise)
  ELSE WithCosh(fr, s.v, MathCosh(fr.H))

IterStep(fr) == WithSinh(fr, MathSinh(fr.H))

\* line 35 with range(maxit) exhausted, then line 44
ExhaustStep(fr) == [fr EXCEPT !.pc = "done"]

\* the next step of a call; a call that has ended stays as it is
StepFrame(fr) ==
  CASE fr.pc = "seed" -> SeedStep(fr)
    [] fr.pc = "loop" /\ fr.it < fr.maxit -> IterStep(fr)
    [] fr.pc = "loop" /\ fr.it >= fr.maxit -> ExhaustStep(fr)
    [] fr.pc \in {"done", "raised"} -> fr

\* up to 4^k steps of a call
RECURSIVE RunFrame(_, _)
RunFrame(st, k) ==
  LET a == RunFrame(st, k - 1)
      b == RunFrame(a, k - 1)
      c == RunFrame(b, k - 1)
  IN CASE k = 0 -> StepFrame(st)
       [] k > 0 /\ a.pc \in {"done", "raised"} -> a
       [] k > 0 /\ a.pc \in {"seed", "loop"} /\ b.pc \in {"done", "raised"} -> b
       [] k > 0 /\ b.pc \in {"seed", "loop"} /\ c.pc \in {"done", "raised"} -> c
       [] k > 0 /\ c.pc \in {"seed", "loop"} -> RunFrame(c, k - 1)

\* the whole call: at most maxit + 2 <= 256 steps
SolveH(Mh, e, tol, maxit) == RunFrame(Enter(Mh, e, tol, maxit), 4)

(***************************************************************************)
(* State.  call is one call of solve_H and mirror the call with the same   *)
(* e, tol and maxit and the negated Mh, taken through the same steps;      *)
(* main is the frame of main() and frames are the calls of line 77 when    *)
(* they are run as separate tasks.                                         *)
(***************************************************************************)
VARIABLES call, mirror, main, frames
vars == <<call, mirror, main, frames>>

\* values of Mh, e, tol and maxit given to solve_H
MhHalf == Dbl(0, <<0, 0, 0, 1024>>, -53)                      \* 0.5
MhAboveOne == Dbl(0, <<1, 0, 0, 1024>>, -52)                  \* 1.0000000000000002
MhFar == Dbl(0, <<0, 0, 0, 1600>>, -48)                       \* 25.0
eNearOne == Dbl(0, <<15466, 3538, 393, 1025>>, -52)           \* 1.001
eEdge == Dbl(0, <<10622, 1368, 7230, 1025>>, -52)             \* 1.0014075090608396
eTwo == Dbl(0, <<0, 0, 0, 1024>>, -51)                        \* 2.0
eAtlas == Dbl(0, <<13032, 1210, 190, 1564>>, -50)             \* 6.1094203171494215
LooseTol == Dbl(0, <<10748, 3014, 9437, 1048>>, -62)          \* 1e-3

MhValues == {FZero, MhHalf, FOne, MhAboveOne, MhFar}
SolveInputs ==
  (MhValues \X {eNearOne, eTwo, eAtlas}) \cup {<<FOne, eEdge>>}
CallOptions ==
  {<<DefaultTol, DefaultMaxit>>, <<DefaultTol, 1>>, <<LooseTol, 2>>, <<LooseTol, 3>>}

Idle == [pc |-> "idle"]

SolveInit ==
  \E in \in SolveInputs, opt \in CallOptions :
    /\ call = Enter(in[1], in[2], opt[1], opt[2])
    /\ mirror = Enter(FNeg(in[1]), in[2], opt[1], opt[2])
    /\ main = Idle
    /\ frames = <<>>

\* lines 31-34
Seed ==
  /\ call.pc = "seed"
  /\ call' = SeedStep(call)
  /\ mirror' = StepFrame(mirror)
  /\ UNCHANGED <<main, frames>>

\* lines 35-43: one pass of the loop
Iterate ==
  /\ call.pc = "loop"
  /\ call.it < call.maxit
  /\ call' = IterStep(call)
  /\ mirror' = StepFrame(mirror)
  /\ UNCHANGED <<main, frames>>

\* line 35 with the range exhausted, line 44
Exhaust ==
  /\ call.pc = "loop"
  /\ call.it >= call.maxit
  /\ call' = ExhaustStep(call)
  /\ mirror' = StepFrame(mirror)
  /\ UNCHANGED <<main, frames>>

SolveNext == Seed \/ Iterate \/ Exhaust

SolveSpec == SolveInit /\ [][SolveNext]_vars

(***************************************************************************)
(* Properties of solve_H, stated of call (and mirror) under SolveSpec      *)
(***************************************************************************)
\* C1: a call applies at least one and at most maxit updates, stops at the
\* first update with |dH| < tol and otherwise after exactly maxit updates,
\* returns the H that includes the last update, and never raises.
C1_LoopContract ==
  /\ call.pc # "raised"
  /\ call.pc = "done" =>
       /\ call.it >= 1
       /\ call.it <= call.maxit
       /\ (Converged(call.dH, call.tol) \/ call.it = call.maxit)
       /\ call.H = FAdd(call.Hprev, call.dH)
  /\ (call.pc = "loop" /\ call.it >= 1) => ~Converged(call.dH, call.tol)

\* e * sinh(H) - H - Mh of the H a call holds, and the bound 1e-9 on it
KeplerResidual(fr) == Residual(fr.e, FSinh(fr.H), fr.H, fr.Mh)
ResidualBound == Dbl(0, <<5781, 8347, 8382, 1099>>, -82)

\* C2: with the default tol and maxit, the H a call returns satisfies
\* |e * sinh(H) - H - Mh| < 1e-9.
C2_ResidualBound ==
  (call.pc = "done" /\ call.tol = DefaultTol /\ call.maxit = DefaultMaxit) =>
    FLt(FAbs(KeplerResidual(call)), ResidualBound)

\* C3: solve_H(0, e) has seed 0, a first Newton step of 0, leaves the loop
\* on the first iteration and returns 0.
C3_ZeroCase ==
  FIsZero(call.Mh) =>
    /\ call.pc # "raised"
    /\ call.pc # "seed" => FIsZero(call.H0)
    /\ call.pc = "loop" => call.it = 0
    /\ call.pc = "done" => call.it = 1 /\ FIsZero(call.dH) /\ FIsZero(call.H)

C3_ZeroSolved ==
  FIsZero(call.Mh) /\ call.pc = "done" /\ call.maxit > 1 /\ FIsZero(call.H)

\* b == -a, as Python compares floats
IsNegation(a, b) == FEq(b, FNeg(a))

\* C4: the calls for Mh and -Mh are at the same place after the same
\* number of iterations, and their seeds, iterates and returned values are
\* exact negations of each other.
C4_OddSymmetry ==
  /\ mirror.pc = call.pc
  /\ mirror.it = call.it
  /\ IsNegation(call.H0, mirror.H0)
  /\ IsNegation(call.H, mirror.H)

\* C8: the seed is asinh(Mh / e) when |Mh| > 1 and Mh / (e - 1) in every
\* other case, |Mh| = 1 included; one of the two is used on every call and
\* the choice depends on Mh alone.
C8_SeedChoice ==
  call.pc # "seed" =>
    IF FCmp(FAbs(call.Mh), FOne) > 0
    THEN call.seed = "asinh" /\ call.H0 = FAsinh(FDiv(call.Mh, call.e))
    ELSE call.seed = "linear" /\ call.H0 = FDiv(call.Mh, FSub(call.e, FOne))

C8_BoundarySeed ==
  call.Mh = FOne /\ call.seed = "linear" /\ mirror.seed = "linear" /\ call.it >= 1

\* C9: in every iteration fp = e * cosh(H) - 1 is strictly positive, and
\* neither dH = -f / fp nor the seed Mh / (e - 1) divides by zero.
C9_DenominatorPositive ==
  /\ call.exc # "ZeroDivisionError"
  /\ ~FIsZero(FSub(call.e, FOne))
  /\ call.it >= 1 => FGt(call.fp, FZero)

(***************************************************************************)
(* main(): the orbital elements, the time grid and the series derived from *)
(* it.  Arrays are sequences; numpy applies an operation element by        *)
(* element.                                                                *)
(***************************************************************************)
k_gauss == Dbl(0, <<13978, 1690, 5845, 1127>>, -58)           \* 0.01720209895
q_peri == Dbl(0, <<8782, 8257, 917, 1389>>, -52)              \* q = 1.3565
a_semi == Dbl(1, <<4100, 4970, 7324, 1087>>, -54)             \* a = -0.26549

\* e = 1.0 + (q / abs(a))
Eccentricity(q, a) ==
  FAdd(FOne, FDiv(q, FAbs(a)))

\* y = arange(num) * step + start, or arange(num) / (num - 1) * delta
\* + start when the step is zero (arange(num) * delta + start for num = 1)
Stepped(start, delta, num, step) ==
  Tup([i \in 1..num |->
        CASE num = 1 -> FAdd(FMul(FInt(i - 1), delta), start)
          [] num > 1 /\ FIsZero(step) ->
               FAdd(FMul(FDiv(FInt(i - 1), FInt(num - 1)), delta), start)
          [] num > 1 /\ ~FIsZero(step) ->
               FAdd(FMul(FInt(i - 1), step), start)])

\* step = delta / (num - 1)
Spaced(start, delta, num) ==
  Stepped(start, delta, num, IF num > 1 THEN FDiv(delta, FInt(num - 1)) ELSE FNaN)

\* y[-1] = stop when num > 1
EndAt(y, stop) ==
  IF Len(y) > 1 THEN Tup([i \in 1..Len(y) |-> IF i = Len(y) THEN stop ELSE y[i]])
  ELSE y

\* np.linspace with endpoint = False taken for it: the end point is left out
LinspaceNoEndpoint(start, stop, num) ==
  SubSeq(Spaced(start, FSub(stop, start), num), 1, num - 1)
\* np.linspace(start, stop, num), num >= 1
Linspace(start, stop, num) == EndAt(Spaced(start, FSub(stop, start), num), stop)

\* tau = math.sqrt((abs(a) ** 3) / mu)
Tau(a, mu) ==
  FSqrt(FDiv(FCube(FAbs(a)), mu))

\* a * (e * np.cosh(H) - 1.0) without np.abs
DistanceNoAbs(a, e, H) ==
  FMul(a, FSub(FMul(e, FCosh(H)), FOne))
\* np.abs(a * (e * np.cosh(H) - 1.0)), for one element
Distance(a, e, H) ==
  FAbs(FMul(a, FSub(FMul(e, FCosh(H)), FOne)))

\* a * (e - coshH), for one element
XPeri(a, e, coshH) == FMul(a, FSub(e, coshH))

\* a * math.sqrt(e ** 2 - 1.0): the factor of sinhH in y_peri
YFactor(a, e) ==
  FMul(a, FSqrt(FSub(FSquare(e), FOne)))

(***************************************************************************)
(* datetime.  A timedelta is a whole number of microseconds; a datetime is *)
(* the proleptic ordinal of its day, the second of the day and the         *)
(* microsecond of the second.                                              *)
(***************************************************************************)
UsPerDay == <<8192, 14173, 321>>                              \* 86400000000
UsPerDayF == Dbl(0, <<0, 0, 7542, 1287>>, -16)
UsPerSecond == <<576, 61>>                                    \* 1000000
\* datetime(2025, 10, 29, 11, 15, 0, tzinfo = timezone.utc)
T_peri == [day |-> 739553, sec |-> 40500, us |-> 0]
MaxOrdinal == 3652059
FHalf == Dbl(0, <<0, 0, 0, 1024>>, -53)                       \* 0.5

\* the whole part of |t| and the fractional part of |t| as a float
FTrunc(t) ==
  IF t.x >= 0 THEN BShl(t.m, t.x) ELSE BShr(t.m, 0 - t.x)
FFrac(t) ==
  IF t.x >= 0 THEN FZero
  ELSE RoundPack(0, BSub(t.m, BShl(BShr(t.m, 0 - t.x), 0 - t.x)), t.x, FALSE)

\* timedelta(days = t) for a finite float t: the whole days are converted
\* exactly, the fraction of a day in float arithmetic, and what is left of
\* a microsecond rounds the sum to the nearest whole number, ties to even
Signed(s, us) == [s |-> IF us = <<>> THEN 0 ELSE s, us |-> us]

\* h orders the leftover and a half
Nearest(s, sum, h) ==
  Signed(s, IF h > 0 \/ (h = 0 /\ BBit(sum, 0) = 1) THEN BAdd(sum, <<1>>) ELSE sum)

\* part is the fraction of a day in microseconds
Micros(t, part) ==
  Nearest(t.s, BAdd(BMul(FTrunc(t), UsPerDay), FTrunc(part)), FCmp(FFrac(part), FHalf))

TimeDelta(t) == Micros(t, FMul(UsPerDayF, FFrac(t)))

\* the datetime dt + td, or "OverflowError" outside the years 1..9999.
\* base is the time of day of dt in microseconds; fwd tells that base + td
\* is not negative; dm is |base + td| in days and microseconds, sm the
\* time of day of the result in seconds and microseconds.
Dated(dt, dm, day, sm) ==
  IF Len(dm[1]) > 2 \/ day < 1 \/ day > MaxOrdinal
  THEN [raise |-> "OverflowError", v |-> dt]
  ELSE [raise |-> "none",
        v |-> [day |-> day, sec |-> BToInt(sm[1]), us |-> BToInt(sm[2])]]

Moved(dt, fwd, dm) ==
  Dated(dt, dm,
        CASE Len(dm[1]) > 2 -> MaxOrdinal + 1
          [] Len(dm[1]) <= 2 /\ fwd -> dt.day + BToInt(dm[1])
          [] Len(dm[1]) <= 2 /\ ~fwd /\ dm[2] = <<>> -> dt.day - BToInt(dm[1])
          [] Len(dm[1]) <= 2 /\ ~fwd /\ dm[2] # <<>> -> dt.day - BToInt(dm[1]) - 1,
        BDivMod(IF fwd \/ dm[2] = <<>> THEN dm[2] ELSE BSub(UsPerDay, dm[2]),
                UsPerSecond))

Offset(td, base, fwd) ==
  CASE td.s = 0 -> BAdd(base, td.us)
    [] td.s = 1 /\ fwd -> BSub(base, td.us)
    [] td.s = 1 /\ ~fwd -> BSub(td.us, base)

Turned(dt, td, base, fwd) == Moved(dt, fwd, BDivMod(Offset(td, base, fwd), UsPerDay))

FromMidnight(dt, td, base) ==
  Turned(dt, td, base, td.s = 0 \/ BCmp(td.us, base) <= 0)

AddDelta(dt, td) ==
  FromMidnight(dt, td, BAdd(BMul(BFromInt(dt.sec), UsPerSecond), BFromInt(dt.us)))

(***************************************************************************)
(* main() step by step.  The command line gives tmin, tmax and points.     *)
(***************************************************************************)
MaxPoints == 5

Neg200 == Dbl(1, <<0, 0, 0, 1600>>, -45)
Pos200 == Dbl(0, <<0, 0, 0, 1600>>, -45)
NegTiny == Dbl(1, <<12104, 10994, 16169, 1717>>, -76)         \* -1e-7
PosTiny == Dbl(0, <<12104, 10994, 16169, 1717>>, -76)         \* 1e-7
Neg10 == Dbl(1, <<0, 0, 0, 1280>>, -49)
Pos10 == Dbl(0, <<0, 0, 0, 1280>>, -49)
Pos40 == Dbl(0, <<0, 0, 0, 1280>>, -47)

\* --tmin, --tmax; the defaults are -200 and 200
GridRanges == {<<Neg200, Pos200>>, <<NegTiny, PosTiny>>, <<Neg10, Pos10>>, <<FZero, Pos40>>}

ParseArgs(tmin, tmax, points) ==
  [pc |-> "elements", tmin |-> tmin, tmax |-> tmax, points |-> points,
   mu |-> FZero, q |-> FZero, a |-> FZero, e |-> FZero,
   t_days |-> <<>>, tau |-> FZero, Mh |-> <<>>, H |-> <<>>, r |-> <<>>,
   coshH |-> <<>>, sinhH |-> <<>>, x_peri |-> <<>>, y_peri |-> <<>>,
   times |-> <<>>, xq |-> FZero, yq |-> FZero]

MainInit ==
  \E rng \in GridRanges, n \in 1..MaxPoints :
    /\ main = ParseArgs(rng[1], rng[2], n)
    /\ call = Idle
    /\ mirror = Idle
    /\ frames = <<>>

\* lines 58-64
Elements ==
  /\ main.pc = "elements"
  /\ main' = [main EXCEPT !.mu = FSquare(k_gauss), !.q = q_peri, !.a = a_semi,
                          !.e = Eccentricity(q_peri, a_semi), !.pc = "grid"]
  /\ UNCHANGED <<call, mirror, frames>>

\* line 70
Grid ==
  /\ main.pc = "grid"
  /\ main' = [main EXCEPT !.t_days = Linspace(main.tmin, main.tmax, main.points),
                          !.pc = "tau"]
  /\ UNCHANGED <<call, mirror, frames>>

\* line 73
Scale ==
  /\ main.pc = "tau"
  /\ main' = [main EXCEPT !.tau = Tau(main.a, main.mu), !.pc = "Mh"]
  /\ UNCHANGED <<call, mirror, frames>>

\* line 76
MeanAnomaly ==
  /\ main.pc = "Mh"
  /\ main' = [main EXCEPT
                !.Mh = Tup([i \in 1..Len(main.t_days) |-> FDiv(main.t_days[i], main.tau)]),
                !.pc = IF main.t_days = <<>> THEN "r" ELSE "solve"]
  /\ UNCHANGED <<call, mirror, frames>>

\* line 77: the next element of the list comprehension, fr the call that
\* computes it
Solved(m, fr) ==
  IF fr.pc = "raised" THEN [m EXCEPT !.pc = "raised"]
  ELSE [m EXCEPT !.H = Append(m.H, fr.H),
                 !.pc = IF Len(m.H) + 1 = Len(m.Mh) THEN "r" ELSE "solve"]

SolveSample ==
  /\ main.pc = "solve"
  /\ main' = Solved(main, SolveH(main.Mh[Len(main.H) + 1], main.e,
                                 DefaultTol, DefaultMaxit))
  /\ UNCHANGED <<call, mirror, frames>>

\* line 80
Distances ==
  /\ main.pc = "r"
  /\ main' = [main EXCEPT
                !.r = Tup([i \in 1..Len(main.H) |-> Distance(main.a, main.e, main.H[i])]),
                !.pc = "perifocal"]
  /\ UNCHANGED <<call, mirror, frames>>

\* lines 85-86
InPlane(m, coshH, sinhH, yf) ==
  [m EXCEPT
     !.coshH = coshH, !.sinhH = sinhH,
     !.x_peri = Tup([i \in 1..Len(coshH) |-> XPeri(m.a, m.e, coshH[i])]),
     !.y_peri = Tup([i \in 1..Len(sinhH) |-> FMul(yf, sinhH[i])]),
     !.pc = "times"]

\* lines 83-86
Perifocal ==
  /\ main.pc = "perifocal"
  /\ main' = InPlane(main, Tup([i \in 1..Len(main.H) |-> FCosh(main.H[i])]),
                     Tup([i \in 1..Len(main.H) |-> FSinh(main.H[i])]),
                     YFactor(main.a, main.e))
  /\ UNCHANGED <<call, mirror, frames>>

\* line 88, ts the outcomes of the additions
Stamped(m, ts) ==
  IF \E i \in 1..Len(ts) : ts[i].raise # "none"
  THEN [m EXCEPT !.pc = "raised"]
  ELSE [m EXCEPT !.times = Tup([i \in 1..Len(ts) |-> ts[i].v]), !.pc = "marker"]

Times ==
  /\ main.pc = "times"
  /\ main' = Stamped(main, Tup([i \in 1..Len(main.t_days) |->
                                 AddDelta(T_peri, TimeDelta(main.t_days[i]))]))
  /\ UNCHANGED <<call, mirror, frames>>

\* lines 118-119
Marker ==
  /\ main.pc = "marker"
  /\ main' = [main EXCEPT !.xq = FMul(main.a, FSub(main.e, FOne)), !.yq = FZero,
                          !.pc = "done"]
  /\ UNCHANGED <<call, mirror, frames>>

MainNext ==
  \/ Elements \/ Grid \/ Scale \/ MeanAnomaly \/ SolveSample
  \/ Distances \/ Perifocal \/ Times \/ Marker

MainSpec == MainInit /\ [][MainNext]_vars

(***************************************************************************)
(* Line 77 with the calls of solve_H run as separate tasks: main has       *)
(* reached line 77, every sample has its own call, the calls take their    *)
(* steps in any order, and the results are gathered in the order of Mh.    *)
(***************************************************************************)
ParSamples == 2

\* main() when it reaches line 77
Line76(m, mu, t, tau) ==
  [m EXCEPT !.mu = mu, !.q = q_peri, !.a = a_semi,
            !.e = Eccentricity(q_peri, a_semi), !.t_days = t, !.tau = tau,
            !.Mh = Tup([i \in 1..Len(t) |-> FDiv(t[i], tau)]), !.pc = "solve"]

Line73(m, mu, t) == Line76(m, mu, t, Tau(a_semi, mu))

AtLine77(tmin, tmax, points) ==
  Line73(ParseArgs(tmin, tmax, points), FSquare(k_gauss),
         Linspace(tmin, tmax, points))

ParRanges ==
  {<<Neg200, Pos200>>, <<Neg10, Pos10>>, <<FZero, Pos40>>, <<Neg10, Pos200>>, <<NegTiny, PosTiny>>}

ParInit ==
  \E rng \in ParRanges :
    /\ main = AtLine77(rng[1], rng[2], ParSamples)
    /\ frames = Tup([i \in 1..ParSamples |->
                       Enter(main.Mh[i], main.e, DefaultTol, DefaultMaxit)])
    /\ call = Idle
    /\ mirror = Idle

\* a step of call i that also leaves its H in every other call
ParStepShared(i) ==
  /\ main.pc = "solve"
  /\ frames[i].pc \in {"seed", "loop"}
  /\ frames' = Tup([k \in 1..Len(frames) |->
                     IF k = i THEN StepFrame(frames[i])
                     ELSE [frames[k] EXCEPT !.H = StepFrame(frames[i]).H]])
  /\ UNCHANGED <<main, call, mirror>>
\* one step of the call for sample i (lines 31-44); it touches nothing but
\* the locals of that call
ParStep(i) ==
  /\ main.pc = "solve"
  /\ frames[i].pc \in {"seed", "loop"}
  /\ frames' = [frames EXCEPT ![i] = StepFrame(frames[i])]
  /\ UNCHANGED <<main, call, mirror>>

\* np.array([...]) once every call has returned
Gather ==
  /\ main.pc = "solve"
  /\ \A i \in 1..Len(frames) : frames[i].pc = "done"
  /\ main' = [main EXCEPT !.H = Tup([i \in 1..Len(frames) |-> frames[i].H]),
                          !.pc = "r"]
  /\ UNCHANGED <<frames, call, mirror>>

ParNext == (\E i \in 1..Len(frames) : ParStep(i)) \/ Gather

ParSpec == ParInit /\ [][ParNext]_vars

(***************************************************************************)
(* Properties of the propagation, under MainSpec and ParSpec               *)
(***************************************************************************)
\* the places of main after the one named
After(pc) ==
  CASE pc = "grid" -> {"tau", "Mh", "solve", "r", "perifocal", "times", "marker", "done"}
    [] pc = "Mh" -> {"solve", "r", "perifocal", "times", "marker", "done"}
    [] pc = "solve" -> {"r", "perifocal", "times", "marker", "done"}
    [] pc = "r" -> {"perifocal", "times", "marker", "done"}
    [] pc = "perifocal" -> {"times", "marker", "done"}
    [] pc = "times" -> {"marker", "done"}

\* line 77 evaluated from left to right
SequentialH(Mh, e) ==
  Tup([i \in 1..Len(Mh) |-> SolveH(Mh[i], e, DefaultTol, DefaultMaxit).H])

\* C5: for a sample count N >= 1 every series (H, r, x, y, timestamps) has
\* exactly N elements, and element i of each is derived from offset i of
\* the time grid, which runs from tmin to tmax.
C5_SeriesOfGrid ==
  LET n == main.points
      t == main.t_days
  IN /\ main.pc # "raised"
     /\ main.pc \in After("grid") =>
          /\ Len(t) = n
          /\ t[1] = main.tmin
          /\ n > 1 => t[n] = main.tmax
     /\ main.pc \in After("Mh") => Len(main.Mh) = n
     /\ main.pc = "solve" => Len(main.H) < n
     /\ main.pc \in After("solve") => Len(main.H) = n
     /\ main.pc \in After("r") => Len(main.r) = n
     /\ main.pc \in After("perifocal") => Len(main.x_peri) = n /\ Len(main.y_peri) = n
     /\ main.pc \in After("times") => Len(main.times) = n
     /\ main.pc = "done" =>
          /\ main.H = SequentialH(main.Mh, main.e)
          /\ \A i \in 1..n :
               /\ main.Mh[i] = FDiv(t[i], main.tau)
               /\ main.r[i] = FAbs(FMul(main.a, FSub(FMul(main.e, FCosh(main.H[i])), FOne)))
               /\ main.x_peri[i] = FMul(main.a, FSub(main.e, FCosh(main.H[i])))
               /\ main.y_peri[i] = FMul(YFactor(main.a, main.e), FSinh(main.H[i]))
               /\ main.times[i] = AddDelta(T_peri, TimeDelta(t[i])).v

C5_AllSeriesBuilt ==
  /\ main.pc = "done"
  /\ main.points >= 3
  /\ Len(main.times) = main.points
  /\ Len(main.H) = main.points

\* C6: r is strictly decreasing over the offsets t <= 0 up to 0, strictly
\* increasing over the offsets t >= 0 from 0 on, and r(0) = q is its
\* minimum when 0 is in the grid.
C6_StrictlyMonotone ==
  main.pc = "done" =>
    \A i \in 1..main.points :
      /\ \A j \in 1..main.points :
           i < j =>
             /\ FLe(main.t_days[j], FZero) => FGt(main.r[i], main.r[j])
             /\ FLe(FZero, main.t_days[i]) => FLt(main.r[i], main.r[j])
      /\ FIsZero(main.t_days[i]) =>
           /\ FEq(main.r[i], main.q)
           /\ \A j \in 1..main.points : FLe(main.r[i], main.r[j])

\* the sample i at offset 0 has Mh = 0 and H = 0, y = 0 and x = a * (e - 1),
\* the point of the perihelion marker (xq, yq); each part is stated once
\* main has computed it
PerihelionPoint(i) ==
  /\ main.pc \in After("Mh") => FIsZero(main.Mh[i])
  /\ main.pc \in After("solve") => FIsZero(main.H[i])
  /\ main.pc \in After("perifocal") =>
       /\ FIsZero(main.y_peri[i])
       /\ FEq(main.x_peri[i], FMul(main.a, FSub(main.e, FOne)))
  /\ main.pc = "done" =>
       /\ FEq(main.x_peri[i], main.xq)
       /\ FEq(main.y_peri[i], main.yq)

\* C7 as stated: at offset 0 the distance r equals q exactly, y = 0 and
\* x = a * (e - 1) = xq.
C7_DistanceExactlyQ ==
  \A i \in 1..Len(main.t_days) :
    FIsZero(main.t_days[i]) =>
      /\ PerihelionPoint(i)
      /\ main.pc \in After("r") => FEq(main.r[i], main.q)

\* the spacing of the doubles between 1 and 2
OneUlp == Dbl(0, <<1>>, -52)

\* C7 (amended): at offset 0 the distance r equals |a * (e - 1)| = |xq|,
\* which is within one unit in the last place of q but is not q, y = 0
\* and x = a * (e - 1) = xq.
C7_DistanceIsMarker ==
  \A i \in 1..Len(main.t_days) :
    FIsZero(main.t_days[i]) =>
      /\ PerihelionPoint(i)
      /\ main.pc \in After("r") =>
           /\ FEq(main.r[i], FAbs(FMul(main.a, FSub(main.e, FOne))))
           /\ ~FEq(main.r[i], main.q)
           /\ FLe(FAbs(FSub(main.r[i], main.q)), OneUlp)
      /\ main.pc = "done" => FEq(main.r[i], FAbs(main.xq))

C7_PerihelionSampled ==
  /\ main.pc = "done"
  /\ \E i \in 1..main.points : i > 1 /\ FIsZero(main.t_days[i]) /\ FIsZero(main.H[i])

\* C10: whatever the order in which the calls take their steps, each call
\* keeps its own arguments, and the gathered series is the one the
\* sequential left-to-right evaluation gives.
C10_OrderIndependent ==
  /\ \A i \in 1..Len(frames) :
       /\ frames[i].Mh = main.Mh[i]
       /\ frames[i].e = main.e
       /\ frames[i].pc # "raised"
  /\ main.pc = "r" => main.H = SequentialH(main.Mh, main.e)

C10_Gathered ==
  /\ main.pc = "r"
  /\ Len(main.H) >= 2
  /\ main.H[1] # main.H[2]

====
